---- MODULE Spec2Model ----
(***************************************************************************)
(* Model of scripts/update_data.py: the incremental GEO update pipeline.   *)
(* One process invocation runs main() once; the persisted file DATA_FILE   *)
(* survives between invocations.  Strings that the code inspects           *)
(* (accessions, AI completions) are sequences of characters / tokens, so   *)
(* that startswith, re.sub and strip are computed, not assumed.            *)
(***************************************************************************)
EXTENDS Integers, Sequences, FiniteSets, TLC

(* ---------------- bounds ---------------- *)
MaxRuns == 2
MaxFetch == 2

(* ---------------- data ---------------- *)
\* the prefix tested by accession.startswith("GSE")
GSE == <<"G", "S", "E">>

Accessions ==
    { <<"G","S","E","1">>, <<"G","S","E","2">>, <<"G","S","E","3">>,
      <<"G","S","E","4">>, <<"G","D","S","1">> }

\* raw esummary records; the last one has no "Accession" key at all
RawRecords ==
    { [Accession |-> a, title |-> (IF a[4] = "1" THEN "t1" ELSE "t2")] : a \in Accessions }
      \cup { [title |-> "t1"] }

\* what Entrez.esearch can return as IdList
IdLists == { <<>>, <<"101", "102">> }

Emails == {"", "me@lab.org"}
ApiKeys == {"", "key"}

\* what requests.post / response.json() can produce
Contents ==
    { <<"<think>", "x", "\n", "</think>", " ", "F", "\n">>,
      <<"<think>", "x", "</think>", " ">> }

Responses ==
    { [kind |-> "exception"], [kind |-> "status", code |-> 500],
      [kind |-> "status", code |-> 200, body |-> "malformed"] }
      \cup { [kind |-> "status", code |-> 200, body |-> "json", content |-> c] : c \in Contents }

BoundedSeq(S, n) == UNION { [1..k -> S] : k \in 0..n }

(* ---------------- pure helpers ---------------- *)
\* dict.get(key, default)
Get(rec, key, default) == IF key \in DOMAIN rec THEN rec[key] ELSE default

\* a prefix test that looks at the first character only
StartsWith_FirstChar(s, prefix) ==
    /\ Len(s) >= 1
    /\ s[1] = prefix[1]

\* str.startswith
StartsWith(s, prefix) ==
    /\ Len(s) >= Len(prefix)
    /\ SubSeq(s, 1, Len(prefix)) = prefix

\* the known set is not built from the loaded store
AccessionsOf_Empty(data) == {}

\* {d["Accession"] for d in existing_data}
AccessionsOf(data) == { data[i].Accession : i \in 1..Len(data) }

Whitespace == {" ", "\n"}

\* re.sub(r'<think>.*?</think>', '', content, flags=re.DOTALL)
RECURSIVE RemoveThink(_)
RemoveThink(s) ==
    IF s = <<>> THEN <<>>
    ELSE IF Head(s) = "<think>" /\ \E j \in 2..Len(s) : s[j] = "</think>"
         THEN LET j == CHOOSE k \in 2..Len(s) :
                          /\ s[k] = "</think>"
                          /\ \A m \in 2..(k-1) : s[m] # "</think>"
              IN RemoveThink(SubSeq(s, j + 1, Len(s)))
         ELSE <<Head(s)>> \o RemoveThink(Tail(s))

\* str.strip()
RECURSIVE Strip(_)
Strip(s) ==
    IF s = <<>> THEN <<>>
    ELSE IF Head(s) \in Whitespace THEN Strip(Tail(s))
    ELSE IF s[Len(s)] \in Whitespace THEN Strip(SubSeq(s, 1, Len(s) - 1))
    ELSE s

\* a failure that leaks an error text instead of degrading to ""
HandleResponse_Error(resp) ==
    IF resp.kind = "exception" THEN <<"error">>
    ELSE IF resp.code = 200
         THEN IF resp.body = "json" THEN Strip(RemoveThink(resp.content))
              ELSE <<"error">>
         ELSE <<"error">>

\* the try-block of generate_ai_summary: what one HTTP outcome turns into
HandleResponse(resp) ==
    IF resp.kind = "exception" THEN <<>>
    ELSE IF resp.code = 200
         THEN IF resp.body = "json" THEN Strip(RemoveThink(resp.content))
              ELSE <<>>
         ELSE <<>>

\* has the call failed (exception, non-200, malformed body)?
ResponseFailed(resp) ==
    \/ resp.kind = "exception"
    \/ resp.code # 200
    \/ resp.body # "json"

\* the request is sent without looking at MINIMAX_API_KEY
generate_ai_summary_NoCheck(key, resp) ==
    [ret |-> HandleResponse(resp), called |-> TRUE, failed |-> ResponseFailed(resp)]

\* generate_ai_summary(title, summary, data_type); resp is the outcome of
\* requests.post if the call is made
generate_ai_summary(key, resp) ==
    IF key = ""
    THEN [ret |-> <<>>, called |-> FALSE, failed |-> FALSE]
    ELSE [ret |-> HandleResponse(resp), called |-> TRUE, failed |-> ResponseFailed(resp)]

None == [none |-> TRUE]

\* parse_record(record)
parse_record(record, key, resp) ==
    LET accession == Get(record, "Accession", <<>>)
    IN IF ~StartsWith(accession, GSE)
       THEN [parsed |-> None, called |-> FALSE, failed |-> FALSE]
       ELSE LET ai == generate_ai_summary(key, resp)
            IN [parsed |-> [Accession |-> accession,
                            Title |-> Get(record, "title", ""),
                            Data_Type |-> "bulk RNA-seq",
                            AI_Summary_CN |-> ai.ret,
                            AI_Summary |-> ai.ret],
                called |-> ai.called, failed |-> ai.failed]

(* ---------------- state ---------------- *)
VARIABLES
    NCBI_EMAIL, MINIMAX_API_KEY,   \* module-level environment of the process
    Entrez_email,                  \* Entrez.email
    file,                          \* DATA_FILE: [exists, data]
    pc,                            \* position of the process in main()
    existing_data, existing_accessions, id_list, summaries, idx, new_count,
    \* observation of one run
    run, fileAtStart, searchCalls, fetchCalls, parseCalls, aiCalls, aiFailed,
    readFile, wrote,
    prev                           \* replay: the external source is unchanged
                                   \* since the previous run, whose search and
                                   \* fetch results are ids and summaries

vars == <<NCBI_EMAIL, MINIMAX_API_KEY, Entrez_email, file, pc, existing_data,
          existing_accessions, id_list, summaries, idx, new_count, run,
          fileAtStart, searchCalls, fetchCalls, parseCalls, aiCalls, aiFailed,
          readFile, wrote, prev>>

progVars == <<existing_data, existing_accessions, id_list, summaries, idx, new_count>>
envVars == <<NCBI_EMAIL, MINIMAX_API_KEY, run, fileAtStart, prev>>
obsVars == <<searchCalls, fetchCalls, parseCalls, aiCalls, aiFailed, readFile, wrote>>

NoReplay == [replay |-> FALSE, ids |-> <<>>, summaries |-> <<>>]

\* what the search service returns in this run
SearchResults == IF prev.replay THEN {prev.ids} ELSE IdLists

\* what the summary service returns in this run
FetchResults == IF prev.replay THEN {prev.summaries} ELSE BoundedSeq(RawRecords, MaxFetch)

StoreOf(f) == IF f.exists THEN f.data ELSE <<>>

Init ==
    /\ NCBI_EMAIL \in Emails
    /\ MINIMAX_API_KEY \in ApiKeys
    /\ Entrez_email = ""
    /\ file \in { [exists |-> FALSE, data |-> <<>>], [exists |-> TRUE, data |-> <<>>] }
    /\ pc = "start"
    /\ existing_data = <<>>
    /\ existing_accessions = {}
    /\ id_list = <<>>
    /\ summaries = <<>>
    /\ idx = 1
    /\ new_count = 0
    /\ run = 1
    /\ fileAtStart = file
    /\ searchCalls = 0
    /\ fetchCalls = 0
    /\ parseCalls = {}
    /\ aiCalls = {}
    /\ aiFailed = {}
    /\ readFile = FALSE
    /\ wrote = FALSE
    /\ prev = NoReplay

(* ---------------- main() ---------------- *)
\* main() without the credential check
CheckEmail_NoCheck ==
    /\ pc = "start"
    /\ pc' = "load"
    /\ Entrez_email' = NCBI_EMAIL
    /\ UNCHANGED <<file, progVars, envVars, obsVars>>

\* if not NCBI_EMAIL: return ; setup_entrez()
CheckEmail ==
    /\ pc = "start"
    /\ IF NCBI_EMAIL = ""
       THEN /\ pc' = "done"
            /\ UNCHANGED Entrez_email
       ELSE /\ pc' = "load"
            /\ Entrez_email' = NCBI_EMAIL
    /\ UNCHANGED <<file, progVars, envVars, obsVars>>

\* a load that creates DATA_FILE when it is absent
LoadStore_Create ==
    /\ pc = "load"
    /\ existing_data' = (IF file.exists THEN file.data ELSE <<>>)
    /\ readFile' = file.exists
    /\ file' = [exists |-> TRUE, data |-> existing_data']
    /\ existing_accessions' = AccessionsOf(existing_data')
    /\ pc' = "search"
    /\ UNCHANGED <<Entrez_email, id_list, summaries, idx, new_count, envVars,
                   searchCalls, fetchCalls, parseCalls, aiCalls, aiFailed, wrote>>

\* existing_data = json.load(f) or [] ; existing_accessions = {...}
LoadStore ==
    /\ pc = "load"
    /\ existing_data' = (IF file.exists THEN file.data ELSE <<>>)
    /\ readFile' = file.exists
    /\ existing_accessions' = AccessionsOf(existing_data')
    /\ pc' = "search"
    /\ UNCHANGED <<file, Entrez_email, id_list, summaries, idx, new_count, envVars,
                   searchCalls, fetchCalls, parseCalls, aiCalls, aiFailed, wrote>>

\* id_list = search_geo() ; if not id_list: return
SearchOk ==
    /\ pc = "search"
    /\ \E ids \in SearchResults :
          /\ id_list' = ids
          /\ pc' = (IF ids = <<>> THEN "done" ELSE "fetch")
    /\ searchCalls' = searchCalls + 1
    /\ UNCHANGED <<file, Entrez_email, existing_data, existing_accessions, summaries,
                   idx, new_count, envVars, fetchCalls, parseCalls, aiCalls,
                   aiFailed, readFile, wrote>>

\* Entrez.esearch / Entrez.read raises: nothing catches it
SearchRaise ==
    /\ pc = "search"
    /\ searchCalls' = searchCalls + 1
    /\ pc' = "crashed"
    /\ UNCHANGED <<file, Entrez_email, progVars, envVars, fetchCalls, parseCalls,
                   aiCalls, aiFailed, readFile, wrote>>

\* summaries = fetch_summaries(id_list) ; new_count = 0
FetchOk ==
    /\ pc = "fetch"
    /\ IF id_list = <<>>
       THEN /\ summaries' = <<>>
            /\ UNCHANGED fetchCalls
       ELSE /\ \E recs \in FetchResults : summaries' = recs
            /\ fetchCalls' = fetchCalls + 1
    /\ idx' = 1
    /\ new_count' = 0
    /\ pc' = "loop"
    /\ UNCHANGED <<file, Entrez_email, existing_data, existing_accessions, id_list,
                   envVars, searchCalls, parseCalls, aiCalls, aiFailed, readFile, wrote>>

\* Entrez.esummary / Entrez.read raises
FetchRaise ==
    /\ pc = "fetch"
    /\ id_list # <<>>
    /\ fetchCalls' = fetchCalls + 1
    /\ pc' = "crashed"
    /\ UNCHANGED <<file, Entrez_email, progVars, envVars, searchCalls, parseCalls,
                   aiCalls, aiFailed, readFile, wrote>>

\* a skip test that forgets the known-accession set
Skipped_PrefixOnly(record, known) ==
    LET accession == Get(record, "Accession", <<>>)
    IN ~StartsWith(accession, GSE)

\* the test that guards `continue` in the loop of main()
Skipped(record, known) ==
    LET accession == Get(record, "Accession", <<>>)
    IN accession \in known \/ ~StartsWith(accession, GSE)

\* append instead of prepend
Insert0_Append(data, parsed) == data \o <<parsed>>

\* existing_data.insert(0, parsed)
Insert0(data, parsed) == <<parsed>> \o data

\* the accession is not remembered
AddAccession_Forget(known, accession) == known

\* existing_accessions.add(accession)
AddAccession(known, accession) == known \cup {accession}

\* one iteration of `for record in summaries` that hits `continue`
LoopSkip ==
    /\ pc = "loop"
    /\ idx <= Len(summaries)
    /\ Skipped(summaries[idx], existing_accessions)
    /\ idx' = idx + 1
    /\ UNCHANGED <<file, Entrez_email, pc, existing_data, existing_accessions, id_list,
                   summaries, new_count, envVars, obsVars>>

\* one iteration that calls parse_record and merges its result
LoopParse ==
    /\ pc = "loop"
    /\ idx <= Len(summaries)
    /\ ~Skipped(summaries[idx], existing_accessions)
    /\ \E resp \in Responses :
          LET r == parse_record(summaries[idx], MINIMAX_API_KEY, resp)
              accession == Get(summaries[idx], "Accession", <<>>)
          IN /\ parseCalls' = parseCalls \cup {idx}
             /\ aiCalls' = (IF r.called THEN aiCalls \cup {idx} ELSE aiCalls)
             /\ aiFailed' = (IF r.failed THEN aiFailed \cup {idx} ELSE aiFailed)
             /\ IF r.parsed # None
                THEN /\ existing_data' = Insert0(existing_data, r.parsed)
                     /\ existing_accessions' = AddAccession(existing_accessions, accession)
                     /\ new_count' = new_count + 1
                ELSE UNCHANGED <<existing_data, existing_accessions, new_count>>
    /\ idx' = idx + 1
    /\ UNCHANGED <<file, Entrez_email, pc, id_list, summaries, envVars, searchCalls,
                   fetchCalls, readFile, wrote>>

\* write on every run that reaches the end
ShouldWrite_Always(n) == n >= 0

\* the condition of `if new_count > 0` that guards json.dump
ShouldWrite(n) == n > 0

\* after the loop: json.dump(existing_data, f) if new_count > 0
Persist ==
    /\ pc = "loop"
    /\ idx > Len(summaries)
    /\ IF ShouldWrite(new_count)
       THEN /\ file' = [exists |-> TRUE, data |-> existing_data]
            /\ wrote' = TRUE
       ELSE UNCHANGED <<file, wrote>>
    /\ pc' = "done"
    /\ UNCHANGED <<Entrez_email, progVars, envVars, searchCalls, fetchCalls, parseCalls,
                   aiCalls, aiFailed, readFile>>

\* the script is invoked again (a fresh process; only DATA_FILE survives);
\* after a run that completed its search, the external source may be unchanged
NewRun ==
    /\ pc \in {"done", "crashed"}
    /\ run < MaxRuns
    /\ run' = run + 1
    /\ \/ prev' = NoReplay
       \/ /\ pc = "done"
          /\ searchCalls > 0
          /\ prev' = [replay |-> TRUE, ids |-> id_list, summaries |-> summaries]
    /\ NCBI_EMAIL' \in Emails
    /\ MINIMAX_API_KEY' \in ApiKeys
    /\ Entrez_email' = ""
    /\ pc' = "start"
    /\ existing_data' = <<>>
    /\ existing_accessions' = {}
    /\ id_list' = <<>>
    /\ summaries' = <<>>
    /\ idx' = 1
    /\ new_count' = 0
    /\ fileAtStart' = file
    /\ searchCalls' = 0
    /\ fetchCalls' = 0
    /\ parseCalls' = {}
    /\ aiCalls' = {}
    /\ aiFailed' = {}
    /\ readFile' = FALSE
    /\ wrote' = FALSE
    /\ UNCHANGED file

Next ==
    \/ CheckEmail
    \/ LoadStore
    \/ SearchOk
    \/ SearchRaise
    \/ FetchOk
    \/ FetchRaise
    \/ LoopSkip
    \/ LoopParse
    \/ Persist
    \/ NewRun

Spec == Init /\ [][Next]_vars

(* ---------------- vocabulary of the properties ---------------- *)
\* the accession of a raw record, "" when the key is missing
AccOf(record) == IF "Accession" \in DOMAIN record THEN record.Accession ELSE <<>>

HasGSEPrefix(a) == Len(a) >= 3 /\ a[1] = "G" /\ a[2] = "S" /\ a[3] = "E"

AccSet(store) == { store[i].Accession : i \in 1..Len(store) }

NoDup(store) ==
    \A i, j \in 1..Len(store) : i # j => store[i].Accession # store[j].Accession

\* the store the run started from
StartStore == StoreOf(fileAtStart)

\* the raw records of recs that are new with respect to known, in fetch order
RECURSIVE Accepted(_, _)
Accepted(recs, known) ==
    IF recs = <<>> THEN <<>>
    ELSE IF HasGSEPrefix(AccOf(Head(recs))) /\ AccOf(Head(recs)) \notin known
         THEN <<Head(recs)>> \o Accepted(Tail(recs), known \cup {AccOf(Head(recs))})
         ELSE Accepted(Tail(recs), known)

\* accessions known when record j of the fetch result is reached
KnownBefore(j) ==
    AccSet(StartStore)
      \cup { AccOf(summaries[m]) : m \in { k \in 1..(j-1) : HasGSEPrefix(AccOf(summaries[k])) } }

\* number of records prepended to the in-memory store so far in this run
Prepended ==
    IF NCBI_EMAIL = "" \/ pc \in {"start", "load"} THEN 0
    ELSE Len(existing_data) - Len(StartStore)

\* the run went through search and fetch and returned
FetchedAndDone == pc = "done" /\ fetchCalls = 1

(* ---------------- properties ---------------- *)
\* C1: starting from an absent or empty store, neither the in-memory store
\* nor the persisted store ever holds two records with the same accession,
\* whatever the fetch stage returns (duplicates within one run included).
DedupInvariant == NoDup(existing_data) /\ NoDup(file.data)

DedupWitness ==
    /\ pc = "done" /\ wrote
    /\ \E i, j \in 1..Len(summaries) :
          i < j /\ AccOf(summaries[i]) = AccOf(summaries[j]) /\ HasGSEPrefix(AccOf(summaries[i]))

\* C2: after a run whose fetch stage returned, the store is the records
\* accepted as new in reverse fetch order, followed by the store the run
\* started from, unchanged and in its original order.
MergeOrder ==
    FetchedAndDone =>
        LET n == Accepted(summaries, AccSet(StartStore))
            k == Len(n)
            after == StoreOf(file)
        IN /\ Len(after) = k + Len(StartStore)
           /\ \A i \in 1..k :
                 /\ after[i].Accession = AccOf(n[k + 1 - i])
                 /\ after[i].Title = n[k + 1 - i].title
           /\ SubSeq(after, k + 1, Len(after)) = StartStore
           /\ existing_data = after

MergeOrderWitness ==
    /\ FetchedAndDone
    /\ Len(StartStore) = 2
    /\ Len(file.data) = 4
    /\ file.data[1].Accession = AccOf(summaries[2])
    /\ file.data[2].Accession = AccOf(summaries[1])

\* C3: a run that follows a completed run and gets the same search and fetch
\* results adds no record and does not write; the file is what it was.
SameAsPreviousRun ==
    /\ prev.replay
    /\ pc = "done" /\ searchCalls = 1
    /\ id_list = prev.ids
    /\ summaries = prev.summaries

Idempotence ==
    SameAsPreviousRun => new_count = 0 /\ ~wrote /\ file = fileAtStart

IdempotenceWitness ==
    /\ SameAsPreviousRun
    /\ Len(summaries) = 2
    /\ Len(file.data) = 2

\* C4: a completed run has written the file exactly when it prepended at
\* least one record; what it wrote is the whole in-memory store, and a run
\* that did not write left the file as it was.
WriteOnlyOnChange ==
    pc = "done" =>
        /\ wrote <=> Prepended > 0
        /\ wrote => file = [exists |-> TRUE, data |-> existing_data]
        /\ ~wrote => file = fileAtStart

WriteOnlyOnChangeWitness ==
    /\ FetchedAndDone
    /\ ~wrote
    /\ Len(summaries) = 2
    /\ Len(StartStore) > 0

\* C5: no record whose accession is missing or lacks the prefix "GSE" is in
\* the store, and new_count never exceeds the number of prefixed records
\* reached so far.
PrefixFilter ==
    /\ \A i \in 1..Len(existing_data) : HasGSEPrefix(existing_data[i].Accession)
    /\ \A i \in 1..Len(file.data) : HasGSEPrefix(file.data[i].Accession)
    /\ new_count <= Cardinality({ j \in 1..(idx - 1) :
                                     j <= Len(summaries) /\ HasGSEPrefix(AccOf(summaries[j])) })

PrefixFilterWitness ==
    /\ pc = "done" /\ wrote
    /\ Len(summaries) = 2
    /\ new_count = 1
    /\ \E j \in 1..Len(summaries) : "Accession" \notin DOMAIN summaries[j]

\* C6: a run ended by an error of the search or the fetch call has written
\* nothing, left the file as it was, and transformed or enriched no record.
FailureNoChange ==
    pc = "crashed" =>
        /\ ~wrote
        /\ file = fileAtStart
        /\ parseCalls = {}
        /\ aiCalls = {}

FailureNoChangeWitness ==
    /\ pc = "crashed"
    /\ fetchCalls = 1
    /\ Len(file.data) > 0

\* C7: a record whose enrichment call failed is in the store with both
\* AI-summary fields empty; the run goes on to the end of the fetch result
\* and the store is written.
EnrichmentContained ==
    /\ \A j \in aiFailed :
          \E i \in 1..Len(existing_data) :
             /\ existing_data[i].Accession = AccOf(summaries[j])
             /\ existing_data[i].AI_Summary_CN = <<>>
             /\ existing_data[i].AI_Summary = <<>>
    /\ aiFailed # {} => pc \in {"loop", "done"}
    /\ (pc = "done" /\ aiFailed # {}) =>
          /\ idx = Len(summaries) + 1
          /\ wrote
          /\ file = [exists |-> TRUE, data |-> existing_data]

EnrichmentContainedWitness ==
    /\ pc = "done"
    /\ \E j \in aiFailed : \E k \in parseCalls : k > j

\* C8: with NCBI_EMAIL empty the run ends normally with no search, fetch or
\* enrichment call, no read and no write of the file, and the file unchanged.
MissingCredential ==
    NCBI_EMAIL = "" =>
        /\ pc \in {"start", "done"}
        /\ searchCalls = 0 /\ fetchCalls = 0 /\ aiCalls = {} /\ parseCalls = {}
        /\ ~readFile /\ ~wrote
        /\ file = fileAtStart

MissingCredentialWitness ==
    /\ NCBI_EMAIL = ""
    /\ pc = "done"
    /\ Len(file.data) > 0

\* C9: parse_record and the enrichment call are made only for records whose
\* accession is not known (from the store or from earlier in the same run)
\* when they are reached.
KnownSkipped ==
    \A j \in parseCalls \cup aiCalls :
        /\ j \in 1..Len(summaries)
        /\ AccOf(summaries[j]) \notin KnownBefore(j)

KnownSkippedWitness ==
    /\ pc = "done"
    /\ aiCalls # {}
    /\ \E j \in 1..Len(summaries) :
          /\ AccOf(summaries[j]) \in KnownBefore(j)
          /\ j \notin parseCalls

\* C10: with MINIMAX_API_KEY empty no enrichment call is made in the run and
\* every record the run adds has both AI-summary fields empty.
EnrichmentSkip ==
    MINIMAX_API_KEY = "" =>
        /\ aiCalls = {}
        /\ \A i \in 1..Prepended :
              /\ existing_data[i].AI_Summary_CN = <<>>
              /\ existing_data[i].AI_Summary = <<>>

EnrichmentSkipWitness ==
    /\ MINIMAX_API_KEY = ""
    /\ pc = "done"
    /\ new_count = 2
    /\ Prepended = 2

====
